---- MODULE Spec2Model ----
(***************************************************************************)
(* Model of streamlit_app.py: one Streamlit session of the AI ghostwriter.  *)
(* A script run executes the module top to bottom: auto_refresh (line 98),  *)
(* initialize_session (144), the prompt text_area (229),                    *)
(* check_session_limit (232) and main (320).  st.stop ends the run,         *)
(* st.experimental_rerun ends it and starts another one, an uncaught        *)
(* exception ends it with an error.  Time is a clock of whole seconds.      *)
(***************************************************************************)
EXTENDS Integers, Sequences, FiniteSets, TLC

\* ---- bounds of the model ----
MaxTime == 100
TickStep == 20
MaxPromptLen == 1
MaxGenCalls == 4
MaxFaults == 1

\* ---- program constants ----
SessionLimit == 2
BlockSeconds == 60
countdown_time == 5

None == <<>>
Some(v) == <<v>>

GeminiSecretNames ==
  {"API_KEY_GEMINI_1_5_FLASH", "API_KEY_GEMINI_2_0_FLASH",
   "API_KEY_GEMINI_1_5_FLASH_8B", "API_KEY_GEMINI_2_0_FLASH_EXP"}
SearchSecretNames == {"GOOGLE_API_KEY", "GOOGLE_SEARCH_ENGINE_ID"}
SecretNames == GeminiSecretNames \cup SearchSecretNames

\* st.secrets: every name is absent ("missing"), present but empty ("empty")
\* or present with a value ("set").
SecretStates == {"missing", "empty", "set"}

KeyError == "KeyError"
Undefined == "undefined"

\* characters of a prompt or a response text
Chars == {" ", "a"}
RECURSIVE SeqsUpTo(_)
SeqsUpTo(n) ==
  IF n = 0 THEN {<<>>}
  ELSE LET S == SeqsUpTo(n - 1)
       IN S \cup {Append(s, c) : s \in {t \in S : Len(t) = n - 1}, c \in Chars}
Prompts == SeqsUpTo(MaxPromptLen)

\* str.strip(): drop the leading and the trailing whitespace
RECURSIVE LStrip(_)
LStrip(s) == IF s # <<>> /\ Head(s) = " " THEN LStrip(Tail(s)) ELSE s
RECURSIVE RStrip(_)
RStrip(s) ==
  IF s # <<>> /\ s[Len(s)] = " " THEN RStrip(SubSeq(s, 1, Len(s) - 1)) ELSE s
Strip(s) == RStrip(LStrip(s))

\* Python truthiness of a text and of block_time (None and 0 are falsy)
TextTruthy(t) == t # <<>>
Truthy(bt) == bt # None /\ bt[1] # 0

\* the fixed texts the code returns in place of a generated text
NoValidResponse == <<"No valid response generated.">>
ErrorGenerating == <<"Error generating content">>
RegenerationFailed == <<"Regeneration failed.">>
ErrorRegenerating == <<"Error regenerating content">>

\* what the generation service does with one call: it returns a response
\* whose text is a character sequence (possibly empty), or it raises
GenResponses == {[raised |-> FALSE, text |-> t] : t \in {<<"a">>, <<" ">>, <<>>}}
                  \cup {[raised |-> TRUE, text |-> <<>>]}
GenFailed(r) == r.raised \/ ~TextTruthy(r.text)

\* what the search request does: HTTP 200 with or without items, another
\* status, or the request raises (aiohttp client error)
SearchResponses == {"200_items", "200_no_items", "non_200", "raises"}

VARIABLES
  now,             \* time.time()
  initialized,     \* the keys of st.session_state exist
  session_count,   \* st.session_state.session_count
  block_time,      \* st.session_state.block_time: None or Some(t)
  generated_text,  \* st.session_state.generated_text
  query_block,     \* the block_time query parameter of the page URL
  pc,              \* position of the script run
  click,           \* the button whose click triggered this run
  prompt,          \* value of the text_area, read when Generate is clicked
  buttons,         \* buttons the current run has rendered
  page,            \* buttons of the previous run still shown by the browser
  run_gate,        \* block_time against the clock when the run started
  run_gen,         \* response of this run's generate_content_async call
  run_search,      \* what this run's search_web_async did
  run_regen,       \* the text regenerate_content returned in this run
  run_download,    \* download buttons offered by this run
  outcome,         \* how the run ended
  error,           \* the uncaught exception that ended it
  warning,         \* the st.warning shown by this run
  run_keys,        \* credentials this run's generation calls were configured with
  run_missing,     \* Gemini secrets that were missing when this run's rotator ran
  genCalls,        \* generation-service calls issued in the session
  everDenied,      \* check_session_limit has stopped a run of this session
  limit_hit_at     \* time of the run that set block_time

session == <<initialized, session_count, block_time, generated_text, query_block>>
runvars == <<click, prompt, run_gate, run_gen, run_search, run_regen,
             run_keys, run_missing, run_download, outcome, error, warning>>
history == <<genCalls, everDenied, limit_hit_at>>
vars == <<now, session, pc, buttons, page, runvars, history>>

NoWarning == [kind |-> "none", secs |-> 0]
NotRun == "not_run"


\* ---- the rotator (lines 13-23) ----

\* st.secrets[name]: a missing name raises KeyError; otherwise the stored
\* value, "" for an empty one
SecretLookup(s, name) ==
  IF s[name] = "missing" THEN KeyError
  ELSE IF s[name] = "empty" THEN "" ELSE name

ModelOf(name) ==
  CASE name = "API_KEY_GEMINI_1_5_FLASH" -> "gemini-1.5-flash"
    [] name = "API_KEY_GEMINI_2_0_FLASH" -> "gemini-2.0-flash"
    [] name = "API_KEY_GEMINI_1_5_FLASH_8B" -> "gemini-1.5-flash-8b"
    [] OTHER -> "gemini-2.0-flash-exp"

\* The list literal evaluates all four lookups before random.choice runs, so
\* one missing secret raises whichever pair would have been chosen.  The
\* result is the set of outcomes: {KeyError}, or the pairs choice may return.
\* the lookups written as st.secrets.get(name): a missing secret yields None
get_next_model_and_key_get(s) ==
  {<<ModelOf(n), IF s[n] = "missing" THEN Undefined ELSE SecretLookup(s, n)>> :
     n \in GeminiSecretNames}

get_next_model_and_key(s) ==
  LET models_and_keys ==
        {<<ModelOf(n), SecretLookup(s, n)>> : n \in GeminiSecretNames}
  IN IF \E mk \in models_and_keys : mk[2] = KeyError
     THEN {KeyError}
     ELSE models_and_keys

\* ---- generate_content_async (lines 31-38), after the call returned r ----
generate_content_result(r) ==
  IF r.raised THEN ErrorGenerating
  ELSE IF TextTruthy(r.text) THEN Strip(r.text) ELSE NoValidResponse

\* ---- regenerate_content (lines 108-116), after the call returned r ----
regenerate_content_result(r) ==
  IF r.raised THEN ErrorRegenerating
  ELSE IF TextTruthy(r.text) THEN Strip(r.text) ELSE RegenerationFailed

\* ---- search_web_async (lines 40-58) ----
\* resp is what the request would do.  The except clause names
\* requests.exceptions.RequestException, and the module never imports
\* requests: when the request raises, evaluating the clause raises NameError.
search_web_async(s, resp) ==
  LET api_key == SecretLookup(s, "GOOGLE_API_KEY")
      search_engine_id == SecretLookup(s, "GOOGLE_SEARCH_ENGINE_ID")
  IN IF api_key = KeyError \/ search_engine_id = KeyError
     THEN [raised |-> KeyError, result |-> NotRun, requested |-> FALSE]
     ELSE IF api_key = "" \/ search_engine_id = ""
     THEN [raised |-> "none", result |-> "None", requested |-> FALSE]
     ELSE IF resp = "200_items"
     THEN [raised |-> "none", result |-> "json_items", requested |-> TRUE]
     ELSE IF resp = "200_no_items"
     THEN [raised |-> "none", result |-> "json_no_items", requested |-> TRUE]
     ELSE IF resp = "non_200"
     THEN [raised |-> "none", result |-> "None", requested |-> TRUE]
     ELSE [raised |-> "NameError", result |-> NotRun, requested |-> TRUE]

\* ---- check_session_limit's decisions (lines 74-83) ----
StillBlocked(time_left) == time_left > 0
\* the threshold compared with > instead of >=
LimitReached_off_by_one(count) == count > SessionLimit
LimitReached(count) == count >= SessionLimit
\* the minutes never converted to seconds
BlockUntil_in_minutes(current_time) == current_time + 1
BlockUntil(current_time) == current_time + 1 * BlockSeconds

\* ---- main's prompt validation (line 237) ----
\* the prompt tested without strip()
ValidPrompt_unstripped(p) == p # <<>>
ValidPrompt(p) == Strip(p) # <<>>

\* block_time against the clock, as a run starts
GateAt(bt, t) ==
  IF ~Truthy(bt) THEN "unset"
  ELSE IF t < bt[1] THEN "before" ELSE IF t = bt[1] THEN "at" ELSE "after"

TypeOK ==
  /\ now \in 0..(MaxTime + countdown_time)
  /\ initialized \in BOOLEAN
  /\ session_count \in Nat
  /\ block_time = None \/ (Len(block_time) = 1 /\ block_time[1] \in Nat)
  /\ click \in {"none", "generate", "podcast", "regenerate", "podcast_regen"}
  /\ prompt \in Prompts
  /\ genCalls \in 0..MaxGenCalls

\* The secrets files the deployment may hold.  st.secrets is read at each
\* lookup (lines 16-19, 42-43) and follows the file, which may be rewritten
\* at any time: every call of a function that reads it sees one of these.
SecretConfigs ==
  {s \in [SecretNames -> SecretStates] :
     Cardinality({n \in SecretNames : s[n] # "set"}) <= MaxFaults}

\* what a call of the rotator can do: the Gemini secrets it found missing
\* and the outcomes of get_next_model_and_key
RotatorCalls ==
  {[missing |-> {n \in GeminiSecretNames : s[n] = "missing"},
    choices |-> get_next_model_and_key(s)] : s \in SecretConfigs}

\* what a call of search_web_async can do
SearchCalls ==
  {search_web_async(s, resp) : s \in SecretConfigs, resp \in SearchResponses}

Init ==
  /\ now = 0
  /\ initialized = FALSE
  /\ session_count = 0
  /\ block_time = None
  /\ generated_text = <<>>
  /\ query_block = None
  /\ pc = "idle"
  /\ click = "none"
  /\ prompt = <<>>
  /\ buttons = {}
  /\ page = {}
  /\ run_gate = "unset"
  /\ run_gen = None
  /\ run_search = None
  /\ run_regen = None
  /\ run_keys = {}
  /\ run_missing = {}
  /\ run_download = {}
  /\ outcome = "none"
  /\ error = "none"
  /\ warning = NoWarning
  /\ genCalls = 0
  /\ everDenied = FALSE
  /\ limit_hit_at = None

\* the per-run observations, as a run starts
FreshRun ==
  /\ run_gen' = None
  /\ run_search' = None
  /\ run_regen' = None
  /\ run_keys' = {}
  /\ run_missing' = {}
  /\ run_download' = {}
  /\ outcome' = "running"
  /\ error' = "none"
  /\ warning' = NoWarning

\* The clock advances (never while a finished run is being observed).
Tick ==
  /\ pc \notin {"done", "rerun"}
  /\ now + TickStep <= MaxTime
  /\ now' = now + TickStep
  /\ UNCHANGED <<session, pc, buttons, page, runvars, history>>

\* A page interaction starts a script run: an edit of the prompt, or a click
\* on a button the browser shows.  While a run executes, and until the
\* browser has handled its end, the buttons of the run before are still
\* shown; an interaction then ends the current run at its next Streamlit
\* call (a run that raised the rerun exception restarts by itself).  The
\* prompt is read only by the Generate branch (line 237).
UserEvent ==
  /\ pc # "rerun"
  /\ \E ev \in {"none"} \cup buttons \cup page, p \in Prompts :
       /\ ev # "generate" => p = <<>>
       /\ ev \in {"generate", "regenerate"} => genCalls < MaxGenCalls
       /\ click' = ev
       /\ prompt' = p
  /\ run_gate' = GateAt(block_time, now)
  /\ pc' = "auto_refresh"
  /\ page' = page \cup buttons
  /\ buttons' = {}
  /\ FreshRun
  /\ UNCHANGED <<now, session, history>>

\* auto_refresh (lines 90-98), called before initialize_session
auto_refresh ==
  /\ pc = "auto_refresh"
  /\ IF initialized /\ Truthy(block_time) /\ block_time[1] - now <= 0
     THEN /\ query_block' = None
          /\ pc' = "rerun"
          /\ outcome' = "rerun"
     ELSE /\ pc' = "initialize_session"
          /\ UNCHANGED <<query_block, outcome>>
  /\ UNCHANGED <<now, initialized, session_count, block_time,
                 generated_text, buttons, page, click, prompt, run_gate, run_gen,
                 run_search, run_regen, run_keys, run_missing, run_download, error, warning,
                 history>>

\* st.experimental_rerun (line 95): the script runs again from the top.
\* Whether the clicked button is still set in the new run depends on the
\* Streamlit version, so both are possible.
experimental_rerun ==
  /\ pc = "rerun"
  /\ click' \in {click, "none"}
  /\ prompt' = IF click' = "generate" THEN prompt ELSE <<>>
  /\ run_gate' = GateAt(block_time, now)
  /\ pc' = "auto_refresh"
  /\ page' = page \cup buttons
  /\ buttons' = {}
  /\ FreshRun
  /\ UNCHANGED <<now, session, history>>

\* initialize_session (lines 60-69, 144): the defaults are the values the
\* variables hold while the keys are absent
initialize_session ==
  /\ pc = "initialize_session"
  /\ initialized' = TRUE
  /\ IF initialized
     THEN UNCHANGED <<session_count, block_time, generated_text>>
     ELSE /\ session_count' = 0
          /\ block_time' = None
          /\ generated_text' = <<>>
  /\ pc' = "check_session_limit"
  /\ UNCHANGED <<now, query_block, buttons, page, runvars, history>>

\* check_session_limit (lines 71-87, 232).  after_warning is where the run
\* is once line 77 has warned: st.stop (line 78) ends the run.
check_session_limit_at(after_warning) ==
  /\ pc = "check_session_limit"
  /\ LET current_time == now
         time_left == IF Truthy(block_time) THEN block_time[1] - current_time ELSE 0
     IN IF Truthy(block_time) /\ StillBlocked(time_left)
        THEN /\ warning' = [kind |-> "wait", secs |-> time_left]
             /\ pc' = after_warning
             /\ outcome' = IF after_warning = "done" THEN "stopped" ELSE outcome
             /\ everDenied' = TRUE
             /\ UNCHANGED <<block_time, query_block, limit_hit_at>>
        ELSE IF LimitReached(session_count)
        THEN /\ block_time' = Some(BlockUntil(current_time))
             /\ query_block' = block_time'
             /\ limit_hit_at' = Some(current_time)
             /\ warning' = [kind |-> "limit", secs |-> 0]
             /\ pc' = "done"
             /\ outcome' = "stopped"
             /\ everDenied' = TRUE
        ELSE /\ block_time' = IF Truthy(block_time) THEN None ELSE block_time
             /\ pc' = "main"
             /\ UNCHANGED <<query_block, limit_hit_at, warning, outcome, everDenied>>
  /\ UNCHANGED <<now, initialized, session_count, generated_text,
                 buttons, page, click, prompt, run_gate, run_gen, run_search,
                 run_regen, run_keys, run_missing, run_download, error, genCalls>>

\* line 78 written as a return: the function ends, the script goes on
check_session_limit_returns == check_session_limit_at("main")

check_session_limit == check_session_limit_at("done")

\* An uncaught exception ends the run.
Crash(e) ==
  /\ pc' = "done"
  /\ outcome' = "crashed"
  /\ error' = e

\* main, the Generate button (lines 236-239)
main_generate_button ==
  /\ pc = "main"
  /\ buttons' = buttons \cup {"generate"}
  /\ IF click = "generate"
     THEN IF ~ValidPrompt(prompt)
          THEN /\ warning' = [kind |-> "valid_prompt", secs |-> 0]
               /\ pc' = "podcast"
          ELSE /\ pc' = "countdown"
               /\ UNCHANGED warning
     ELSE /\ pc' = "podcast"
          /\ UNCHANGED warning
  /\ UNCHANGED <<now, session, page, click, prompt, run_gate, run_gen,
                 run_search, run_regen, run_keys, run_missing, run_download,
                 outcome, error, history>>

\* the countdown (lines 242-248): countdown_time sleeps of one second
countdown ==
  /\ pc = "countdown"
  /\ now + countdown_time <= MaxTime
  /\ now' = now + countdown_time
  /\ pc' = "generate"
  /\ UNCHANGED <<session, buttons, page, runvars, history>>

\* generate_content_async and the bookkeeping after it (lines 251-260).
\* The rotator is called outside the try block (line 27).
generate_content ==
  /\ pc = "generate"
  /\ \E call \in RotatorCalls :
       LET choices == call.choices
       IN /\ run_missing' = call.missing
          /\ IF choices = {KeyError}
             THEN /\ Crash(KeyError)
                  /\ UNCHANGED <<session_count, generated_text, run_gen,
                                 genCalls, run_keys>>
             ELSE \E mk \in choices, r \in GenResponses :
                    /\ genCalls' = genCalls + 1
                    /\ run_keys' = run_keys \cup {mk[2]}
                    /\ run_gen' = Some(r)
                    /\ session_count' = session_count + 1
                    /\ generated_text' = generate_content_result(r)
                    /\ pc' = "search"
                    /\ UNCHANGED <<outcome, error>>
  /\ UNCHANGED <<now, initialized, block_time, query_block, buttons, page,
                 click, prompt, run_gate, run_search, run_regen, run_download,
                 warning, everDenied, limit_hit_at>>

\* search_web_async and the rendering of its result (lines 262-283)
search_web ==
  /\ pc = "search"
  /\ \E res \in SearchCalls :
          /\ run_search' = Some(res)
          /\ IF res.raised # "none"
             THEN /\ Crash(res.raised)
                  /\ UNCHANGED <<warning, run_download>>
             ELSE /\ warning' =
                       IF res.result = "None"
                       THEN [kind |-> "search_error", secs |-> 0]
                       ELSE IF res.result = "json_items"
                       THEN [kind |-> "similar_found", secs |-> 0]
                       ELSE warning
                  /\ run_download' = run_download \cup {"generated_content.txt"}
                  /\ pc' = "podcast"
                  /\ UNCHANGED <<outcome, error>>
  /\ UNCHANGED <<now, session, buttons, page, click, prompt, run_gate,
                 run_gen, run_regen, run_keys, run_missing, history>>

\* main, Convert to Podcast (lines 285-297); gTTS is a network call
podcast_section ==
  /\ pc = "podcast"
  /\ IF TextTruthy(generated_text)
     THEN /\ buttons' = buttons \cup {"podcast"}
          /\ IF click = "podcast"
             THEN \E tts \in {"saved", "raises"} :
                    IF tts = "raises"
                    THEN /\ Crash("gTTSError")
                         /\ UNCHANGED run_download
                    ELSE /\ run_download' = run_download \cup {"generated_content.mp3"}
                         /\ pc' = "regenerate"
                         /\ UNCHANGED <<outcome, error>>
             ELSE /\ pc' = "regenerate"
                  /\ UNCHANGED <<run_download, outcome, error>>
     ELSE /\ pc' = "regenerate"
          /\ UNCHANGED <<buttons, run_download, outcome, error>>
  /\ UNCHANGED <<now, session, page, click, prompt, run_gate, run_gen,
                 run_search, run_regen, run_keys, run_missing, warning, history>>

\* main, Regenerate Content (lines 299-317) with regenerate_content
\* (lines 100-116), whose try block covers the rotator; then the footer.
\* The nested podcast button is rendered, and a click on it starts a run in
\* which Regenerate Content is not set, so its branch never executes.
regenerate_section ==
  /\ pc = "regenerate"
  /\ IF TextTruthy(generated_text) /\ click = "regenerate"
     THEN /\ \E call \in RotatorCalls :
               LET choices == call.choices
               IN /\ run_missing' = call.missing
                  /\ IF choices = {KeyError}
                     THEN /\ run_regen' = Some(ErrorRegenerating)
                          /\ UNCHANGED <<genCalls, run_keys>>
                     ELSE \E mk \in choices, r \in GenResponses :
                            /\ genCalls' = genCalls + 1
                            /\ run_keys' = run_keys \cup {mk[2]}
                            /\ run_regen' = Some(regenerate_content_result(r))
          /\ buttons' = buttons \cup {"podcast", "regenerate", "podcast_regen"}
          /\ run_download' = run_download \cup {"regenerated_content.txt"}
     ELSE /\ buttons' = IF TextTruthy(generated_text)
                        THEN buttons \cup {"regenerate"} ELSE buttons
          /\ UNCHANGED <<genCalls, run_keys, run_regen, run_missing, run_download>>
  /\ pc' = "done"
  /\ outcome' = "completed"
  /\ UNCHANGED <<now, session, page, click, prompt, run_gate, run_gen,
                 run_search, error, warning, everDenied, limit_hit_at>>

\* The run is over and the browser has handled its end: the page shows what
\* the run rendered, the trigger and the per-run observations are dropped.
script_finished ==
  /\ pc = "done"
  /\ pc' = "idle"
  /\ click' = "none"
  /\ prompt' = <<>>
  /\ run_gate' = "unset"
  /\ run_gen' = None
  /\ run_search' = None
  /\ run_regen' = None
  /\ run_keys' = {}
  /\ run_missing' = {}
  /\ run_download' = {}
  /\ outcome' = "none"
  /\ error' = "none"
  /\ warning' = NoWarning
  /\ page' = buttons
  /\ buttons' = {}
  /\ UNCHANGED <<now, session, history>>

ScriptStep ==
  \/ auto_refresh
  \/ experimental_rerun
  \/ initialize_session
  \/ check_session_limit
  \/ main_generate_button
  \/ countdown
  \/ generate_content
  \/ search_web
  \/ podcast_section
  \/ regenerate_section
  \/ script_finished

Next ==
  \/ Tick
  \/ UserEvent
  \/ auto_refresh
  \/ experimental_rerun
  \/ initialize_session
  \/ check_session_limit
  \/ main_generate_button
  \/ countdown
  \/ generate_content
  \/ search_web
  \/ podcast_section
  \/ regenerate_section
  \/ script_finished

Spec == Init /\ [][Next]_vars

\* The script runner executes a started run to its end; the user and the
\* clock owe nothing.
FairSpec == Spec /\ WF_vars(ScriptStep)


\* ---- properties ----

Running == pc \notin {"idle"}
MainPcs == {"main", "countdown", "generate", "search", "podcast", "regenerate"}
BlankPrompts == {p \in Prompts : \A i \in 1..Len(p) : p[i] = " "}
GenerateRun == Running /\ click = "generate" /\ prompt \notin BlankPrompts
RunOver == pc \in {"done", "rerun"}
Expired == initialized /\ block_time # None /\ block_time[1] <= now

\* C1: a run that starts after block_time has elapsed is permitted, and when
\* it is a Generate with a non-empty prompt the generation call is issued
\* and session_count is 1 afterwards.
C1_PermittedAfterDeadline ==
  (run_gate = "after" /\ RunOver) =>
    /\ outcome = "completed"
    /\ GenerateRun => (run_gen # None /\ session_count = 1)

\* C2: a run that starts strictly before block_time never reaches main(),
\* issues no generation call and changes neither session_count nor
\* generated_text.
C2_DeniedBeforeDeadline ==
  /\ [](run_gate = "before" =>
          /\ pc \notin MainPcs
          /\ run_gen = None /\ run_regen = None /\ run_keys = {})
  /\ [][run_gate = "before" =>
          UNCHANGED <<session_count, generated_text, genCalls>>]_vars

C2_Witness ==
  /\ run_gate = "before" /\ pc = "done" /\ outcome = "stopped"
  /\ warning.kind = "wait" /\ click = "generate"

\* C3: session_count never exceeds the threshold of 2.
C3_CountWithinLimit == session_count <= 2

C3_Witness ==
  session_count = 2 /\ pc = "done" /\ outcome = "stopped" /\ click = "generate"

\* C4 as claimed: the action that brings session_count up to the threshold
\* sets block_time to the time of that action plus 60 seconds.
C4_DeadlineSetByLimitAction ==
  [][(session_count < 2 /\ session_count' = 2) =>
       block_time' = Some(now' + 60)]_vars

\* C4 as amended: the action that brings session_count up to the threshold
\* leaves block_time unset; block_time is set only by check_session_limit,
\* to the time of the run it denies plus 60 seconds; a run made t seconds
\* after that one, 0 < t < 60, is denied with 60 - t seconds left.
C4_DeadlineSetByFirstDenial ==
  /\ [][(session_count < 2 /\ session_count' = 2) => block_time' = None]_vars
  /\ [][(block_time' # block_time /\ block_time' # None) =>
          /\ pc = "check_session_limit"
          /\ session_count >= 2
          /\ block_time' = Some(now + 60)
          /\ outcome' = "stopped"]_vars
  /\ [](warning.kind = "wait" =>
          /\ outcome = "stopped"
          /\ limit_hit_at # None
          /\ now - limit_hit_at[1] < 60
          /\ warning.secs = 60 - (now - limit_hit_at[1]))

C4_Witness ==
  /\ warning.kind = "wait" /\ limit_hit_at # None
  /\ now - limit_hit_at[1] > 0 /\ now - limit_hit_at[1] < 60
  /\ warning.secs = 60 - (now - limit_hit_at[1])

\* C5: no more than 2 generation-service calls, Generate and Regenerate
\* together, are issued before the rate limiter denies the session.
C5_AllGenerationCallsCounted == ~everDenied => genCalls <= 2

\* C6: when the generation call of a Generate fails, the failure text is not
\* stored, session_count is not incremented and no search is issued.
C6_FailedGenerationAborts ==
  /\ []((run_gen # None /\ GenFailed(run_gen[1])) =>
          /\ run_search = None
          /\ generated_text \notin {ErrorGenerating, NoValidResponse})
  /\ [][(run_gen = None /\ run_gen' # None /\ GenFailed(run_gen'[1])) =>
          UNCHANGED <<session_count, generated_text>>]_vars

\* C7 as claimed: a run started by Generate with an empty or whitespace-only
\* prompt issues no generation or search call and leaves session_count,
\* block_time and generated_text as they were.
C7_BlankPromptNoMutation ==
  /\ []((Running /\ click = "generate" /\ prompt \in BlankPrompts) =>
          (run_gen = None /\ run_search = None /\ run_keys = {}))
  /\ [][(Running /\ click = "generate" /\ prompt \in BlankPrompts) =>
          UNCHANGED <<session_count, block_time, generated_text, genCalls>>]_vars

\* C7 as amended: such a run issues no generation or search call and leaves
\* session_count and generated_text as they were; block_time changes only
\* when check_session_limit denies the run, before main() is reached.
C7_BlankPromptRejected ==
  /\ []((Running /\ click = "generate" /\ prompt \in BlankPrompts) =>
          (run_gen = None /\ run_search = None /\ run_keys = {}))
  /\ [][(Running /\ click = "generate" /\ prompt \in BlankPrompts) =>
          /\ UNCHANGED <<session_count, generated_text, genCalls>>
          /\ block_time' # block_time =>
               (pc = "check_session_limit" /\ outcome' = "stopped")]_vars

C7_Witness ==
  /\ click = "generate" /\ prompt = <<" ">> /\ pc = "done"
  /\ outcome = "completed" /\ warning.kind = "valid_prompt"

\* C8: the search step never propagates an exception, and a Generate run
\* whose search fails completes with the 'Error or no results' warning and
\* the text download offer.
C8_SearchFailureReturnsNone ==
  run_search # None =>
    /\ run_search[1].raised = "none"
    /\ (pc = "done" /\ run_search[1].result \notin {"json_items", "json_no_items"}) =>
         /\ run_search[1].result = "None"
         /\ outcome = "completed"
         /\ warning.kind = "search_error"
         /\ "generated_content.txt" \in run_download

\* C9: no generation call is configured with an undefined credential; when a
\* Gemini secret is missing the rotator raises before any call is made, on
\* the Generate path (the run ends with KeyError) and on the Regenerate path.
C9_NoUndefinedCredential ==
  /\ run_keys \cap {Undefined, KeyError} = {}
  /\ run_missing # {} =>
       /\ run_keys = {}
       /\ run_gen = None
       /\ click = "generate" => (outcome = "crashed" /\ error = KeyError)
       /\ click = "regenerate" => run_regen = Some(ErrorRegenerating)

C9_Witness ==
  /\ run_missing # {} /\ click = "regenerate" /\ pc = "done"
  /\ run_regen = Some(ErrorRegenerating) /\ run_keys = {}

\* C10: once block_time has passed, a run that auto_refresh reruns is
\* followed, after finitely many reruns, by a run that reaches
\* check_session_limit.
C10_RefreshTerminates ==
  (pc = "auto_refresh" /\ Expired) ~> (pc = "check_session_limit")

====
